---- MODULE Spec2Model ----
(***************************************************************************)
(* A model of package lesser (src/lesser.go): Of builds, from the runtime  *)
(* type of a slice's elements, a chain of closures that compares two       *)
(* elements of the slice by index.  The model keeps the backing array as a *)
(* byte-addressed heap, the closures as the records of what they capture   *)
(* (addr0, size, off, optEq), and the caller (Of, stores into the slice,   *)
(* calls of the less function, sort.Slice's insertion sort) as actions.    *)
(***************************************************************************)
EXTENDS Integers, Sequences, FiniteSets

\* Largest slice length the caller passes.
MaxLen == 2
\* Largest number of scalar cells in the backing array (length * cells per element).
MaxCells == 8

VARIABLES
  arg,    \* the argument of Of: [kind, et, len, data]
  heap,   \* the backing array: address -> scalar value
  pc,     \* "start", "built", "sorting", "sorted", "panic"
  err,    \* "", "InvalidArgument", "UnsupportedType", "NilCall"
  less,   \* the value Of returned (a func value: <<>> is nil)
  got,    \* what the last direct call of less returned: "none", "true", "false"
  zeroAtOf,  \* history: every element was the zero value when Of ran
  si, sj, \* insertion sort's loop indices
  heap0   \* the backing array when the running sort began

vars == <<arg, heap, pc, err, less, got, zeroAtOf, si, sj, heap0>>

----------------------------------------------------------------------------
\* reflect.Type descriptors

Prim(k) == [kind |-> k, len |-> 0, sub |-> <<>>, names |-> <<>>]

ArrayOf(n, t) == [kind |-> "Array", len |-> n, sub |-> <<t>>, names |-> <<>>]

StructOf(ns, ts) == [kind |-> "Struct", len |-> 0, sub |-> ts, names |-> ns]

\* Type.Size() of the kinds that are not arrays or structs (gc, 64-bit).
KindSize(k) ==
  CASE k \in {"Bool", "Int8", "Uint8"} -> 1
    [] k \in {"Int16", "Uint16"} -> 2
    [] k \in {"Int32", "Uint32", "Float32"} -> 4
    [] k \in {"Complex128", "String", "Interface"} -> 16
    [] k = "Slice" -> 24
    [] OTHER -> 8

\* Type.Align() of the kinds that are not arrays or structs.
KindAlign(k) ==
  CASE k \in {"Bool", "Int8", "Uint8"} -> 1
    [] k \in {"Int16", "Uint16"} -> 2
    [] k \in {"Int32", "Uint32", "Float32", "Complex64"} -> 4
    [] OTHER -> 8

AlignUp(x, a) == ((x + a - 1) \div a) * a

Max(a, b) == IF a >= b THEN a ELSE b

RECURSIVE Size(_), Align(_), FieldOffset(_, _), FieldEnd(_, _), MaxAlign(_, _)

\* The largest alignment among the first n fields of struct type t.
MaxAlign(t, n) == IF n = 0 THEN 1 ELSE Max(MaxAlign(t, n - 1), Align(t.sub[n]))

\* Type.Align()
Align(t) ==
  CASE t.kind = "Array" -> Align(t.sub[1])
    [] t.kind = "Struct" -> MaxAlign(t, Len(t.sub))
    [] OTHER -> KindAlign(t.kind)

\* The offset just past field n of struct type t (fields are numbered from 1).
FieldEnd(t, n) == IF n = 0 THEN 0 ELSE FieldOffset(t, n) + Size(t.sub[n])

\* StructField.Offset of field n of struct type t.
FieldOffset(t, n) == AlignUp(FieldEnd(t, n - 1), Align(t.sub[n]))

\* Type.Size(); a struct that ends in a zero-size field gets a byte of padding.
Size(t) ==
  CASE t.kind = "Array" -> t.len * Size(t.sub[1])
    [] t.kind = "Struct" ->
         LET n == Len(t.sub)
             e == FieldEnd(t, n)
             p == IF n > 0 /\ e > 0 /\ Size(t.sub[n]) = 0 THEN e + 1 ELSE e
         IN AlignUp(p, Align(t))
    [] OTHER -> KindSize(t.kind)

----------------------------------------------------------------------------
\* The scalar cells of one element, where the element really keeps them

\* The class of value a scalar of kind k holds.
CellClass(k) ==
  CASE k = "Bool" -> "bool"
    [] k \in {"Float32", "Float64"} -> "float"
    [] k = "String" -> "string"
    [] k \in {"Chan", "Func", "Map", "Ptr", "UnsafePointer", "Word"} -> "word"
    [] OTHER -> "int"

Cell(k, off, blank) == [kind |-> k, off |-> off, blank |-> blank]

RECURSIVE Cells(_, _, _), ArrayCells(_, _, _, _), StructCells(_, _, _, _)

\* The cells of a value of type t that lies at offset base of the element;
\* blank says the value lies inside a field named "_".
Cells(t, base, blank) ==
  CASE t.kind = "Array" -> ArrayCells(t, base, blank, 0)
    [] t.kind = "Struct" -> StructCells(t, base, blank, 1)
    [] t.kind = "Complex64" ->
         <<Cell("Float32", base, blank), Cell("Float32", base + 4, blank)>>
    [] t.kind = "Complex128" ->
         <<Cell("Float64", base, blank), Cell("Float64", base + 8, blank)>>
    [] t.kind = "Interface" ->
         <<Cell("Word", base, blank), Cell("Word", base + 8, blank)>>
    [] t.kind = "Slice" ->
         <<Cell("Word", base, blank), Cell("Word", base + 8, blank),
           Cell("Word", base + 16, blank)>>
    [] OTHER -> <<Cell(t.kind, base, blank)>>

ArrayCells(t, base, blank, i) ==
  IF i >= t.len THEN <<>>
  ELSE Cells(t.sub[1], base + i * Size(t.sub[1]), blank)
       \o ArrayCells(t, base, blank, i + 1)

StructCells(t, base, blank, n) ==
  IF n > Len(t.sub) THEN <<>>
  ELSE Cells(t.sub[n], base + FieldOffset(t, n), blank \/ t.names[n] = "_")
       \o StructCells(t, base, blank, n + 1)

\* The cells of one element of the slice.
ElemCells(t) == Cells(t, 0, FALSE)

----------------------------------------------------------------------------
\* Scalar values

\* A floating-point value: not-a-number, or the number v (neg marks -0).
Float(nan, neg, v) == [nan |-> nan, neg |-> neg, v |-> v]

NaN == Float(TRUE, FALSE, 0)

\* Go's == on floats: false when either is not-a-number, -0 == +0.
FloatEq(a, b) == ~a.nan /\ ~b.nan /\ a.v = b.v

\* Go's < on floats: false when either is not-a-number.
FloatLt(a, b) == ~a.nan /\ ~b.nan /\ a.v < b.v

RECURSIVE StrLess(_, _)
\* Go's < on strings (byte-wise lexicographic); a string is its bytes.
StrLess(a, b) ==
  IF b = <<>> THEN FALSE
  ELSE IF a = <<>> THEN TRUE
  ELSE IF Head(a) # Head(b) THEN Head(a) < Head(b)
  ELSE StrLess(Tail(a), Tail(b))

\* The zero value of a cell, as make() leaves it.
ZeroOf(k) ==
  CASE CellClass(k) = "bool" -> FALSE
    [] CellClass(k) = "float" -> Float(FALSE, FALSE, 0)
    [] CellClass(k) = "string" -> <<>>
    [] OTHER -> 0

\* The values the caller stores into a cell of kind k.
Vals(k) ==
  CASE CellClass(k) = "bool" -> BOOLEAN
    [] k = "Float32" -> {NaN, Float(FALSE, FALSE, 0), Float(FALSE, FALSE, 1)}
    [] k = "Float64" ->
         {NaN, Float(FALSE, TRUE, 0), Float(FALSE, FALSE, 0), Float(FALSE, FALSE, 1)}
    [] CellClass(k) = "string" -> {<<>>, <<1>>, <<1, 2>>, <<2>>}
    [] k = "Int" -> {0 - 1, 0, 1}
    [] k = "Word" -> {0}
    [] OTHER -> {0, 1}

----------------------------------------------------------------------------
\* func values of type less

\* The nil func.
NilLess == <<>>

\* The closure a lessXxx function returns: its code and what it captured.
Closure(fn, addr0, size, off, optEq) ==
  <<[fn |-> fn, addr0 |-> addr0, size |-> size, off |-> off, optEq |-> optEq]>>

addr(addr0, size, off, i) == addr0 + size * i + off

lessBool(addr0, size, off, optEq) == Closure("lessBool", addr0, size, off, optEq)
lessString(addr0, size, off, optEq) == Closure("lessString", addr0, size, off, optEq)
lessInt(addr0, size, off, optEq) == Closure("lessInt", addr0, size, off, optEq)
lessInt8(addr0, size, off, optEq) == Closure("lessInt8", addr0, size, off, optEq)
lessInt16(addr0, size, off, optEq) == Closure("lessInt16", addr0, size, off, optEq)
lessInt32(addr0, size, off, optEq) == Closure("lessInt32", addr0, size, off, optEq)
lessInt64(addr0, size, off, optEq) == Closure("lessInt64", addr0, size, off, optEq)
lessUint(addr0, size, off, optEq) == Closure("lessUint", addr0, size, off, optEq)
lessUint8(addr0, size, off, optEq) == Closure("lessUint8", addr0, size, off, optEq)
lessUint16(addr0, size, off, optEq) == Closure("lessUint16", addr0, size, off, optEq)
lessUint32(addr0, size, off, optEq) == Closure("lessUint32", addr0, size, off, optEq)
lessUint64(addr0, size, off, optEq) == Closure("lessUint64", addr0, size, off, optEq)
lessUintptr(addr0, size, off, optEq) == Closure("lessUintptr", addr0, size, off, optEq)
lessFloat32(addr0, size, off, optEq) == Closure("lessFloat32", addr0, size, off, optEq)
lessFloat64(addr0, size, off, optEq) == Closure("lessFloat64", addr0, size, off, optEq)

lessComplex64(addr0, size, off, optEq) ==
  lessFloat32(addr0, size, off, lessFloat32(addr0, size, off + 4, optEq))

lessComplex128(addr0, size, off, optEq) ==
  lessFloat64(addr0, size, off, lessFloat64(addr0, size, off + 8, optEq))

\* The closure's test va == vb.
bodyEq(fn, va, vb) ==
  IF fn \in {"lessFloat32", "lessFloat64"} THEN FloatEq(va, vb) ELSE va = vb

\* The closure's last return statement, reached when va != vb.
bodyLess(fn, va, vb) ==
  CASE fn = "lessBool" -> va = FALSE
    [] fn = "lessString" -> StrLess(va, vb)
    [] fn \in {"lessFloat32", "lessFloat64"} ->
         FloatLt(va, vb) \/ (va.nan /\ ~vb.nan)
    [] OTHER -> va < vb

RECURSIVE InvokeFirst(_, _, _, _)
\* A mutant of Invoke: every body reads its second operand from element 0,
\* the element whose address Of took, instead of element j.
InvokeFirst(l, h, i, j) ==
  LET c == l[1]
      va == h[addr(c.addr0, c.size, c.off, i)]
      vb == h[addr(c.addr0, c.size, c.off, 0)]
  IN IF bodyEq(c.fn, va, vb)
     THEN IF c.optEq # NilLess THEN InvokeFirst(c.optEq, h, i, j) ELSE FALSE
     ELSE bodyLess(c.fn, va, vb)

RECURSIVE Invoke(_, _, _, _)
\* The call l(i, j) of a non-nil less function, the backing array being h.
Invoke(l, h, i, j) ==
  LET c == l[1]
      va == h[addr(c.addr0, c.size, c.off, i)]
      vb == h[addr(c.addr0, c.size, c.off, j)]
  IN IF bodyEq(c.fn, va, vb)
     THEN IF c.optEq # NilLess THEN Invoke(c.optEq, h, i, j) ELSE FALSE
     ELSE bodyLess(c.fn, va, vb)

----------------------------------------------------------------------------
\* Of and forAddr

\* A normal return of a less value, or a panic.
Return(l) == [panic |-> "", less |-> l]

Panic(e) == [panic |-> e, less |-> NilLess]

\* A mutant of makeLessOf: an interface value is ordered like a pointer.
makeLessOfIface(k) ==
  CASE k = "Bool" -> "lessBool"
    [] k = "Int" -> "lessInt"
    [] k = "Int8" -> "lessInt8"
    [] k = "Int16" -> "lessInt16"
    [] k = "Int32" -> "lessInt32"
    [] k = "Int64" -> "lessInt64"
    [] k = "Uint" -> "lessUint"
    [] k = "Uint8" -> "lessUint8"
    [] k = "Uint16" -> "lessUint16"
    [] k = "Uint32" -> "lessUint32"
    [] k = "Uint64" -> "lessUint64"
    [] k = "Uintptr" -> "lessUintptr"
    [] k = "Float32" -> "lessFloat32"
    [] k = "Float64" -> "lessFloat64"
    [] k = "Complex64" -> "lessComplex64"
    [] k = "Complex128" -> "lessComplex128"
    [] k \in {"Chan", "Func", "Map", "Ptr", "UnsafePointer", "Interface"} -> "lessUintptr"
    [] k = "String" -> "lessString"
    [] OTHER -> ""

\* forAddr's switch: the makeLess that t.Kind() selects; "" is nil.
makeLessOf(k) ==
  CASE k = "Bool" -> "lessBool"
    [] k = "Int" -> "lessInt"
    [] k = "Int8" -> "lessInt8"
    [] k = "Int16" -> "lessInt16"
    [] k = "Int32" -> "lessInt32"
    [] k = "Int64" -> "lessInt64"
    [] k = "Uint" -> "lessUint"
    [] k = "Uint8" -> "lessUint8"
    [] k = "Uint16" -> "lessUint16"
    [] k = "Uint32" -> "lessUint32"
    [] k = "Uint64" -> "lessUint64"
    [] k = "Uintptr" -> "lessUintptr"
    [] k = "Float32" -> "lessFloat32"
    [] k = "Float64" -> "lessFloat64"
    [] k = "Complex64" -> "lessComplex64"
    [] k = "Complex128" -> "lessComplex128"
    [] k \in {"Chan", "Func", "Map", "Ptr", "UnsafePointer"} -> "lessUintptr"
    [] k = "String" -> "lessString"
    [] OTHER -> ""

\* The call makeLess(addr0, size, off, optEq).
callMakeLess(fn, addr0, size, off, optEq) ==
  CASE fn = "lessBool" -> lessBool(addr0, size, off, optEq)
    [] fn = "lessString" -> lessString(addr0, size, off, optEq)
    [] fn = "lessInt" -> lessInt(addr0, size, off, optEq)
    [] fn = "lessInt8" -> lessInt8(addr0, size, off, optEq)
    [] fn = "lessInt16" -> lessInt16(addr0, size, off, optEq)
    [] fn = "lessInt32" -> lessInt32(addr0, size, off, optEq)
    [] fn = "lessInt64" -> lessInt64(addr0, size, off, optEq)
    [] fn = "lessUint" -> lessUint(addr0, size, off, optEq)
    [] fn = "lessUint8" -> lessUint8(addr0, size, off, optEq)
    [] fn = "lessUint16" -> lessUint16(addr0, size, off, optEq)
    [] fn = "lessUint32" -> lessUint32(addr0, size, off, optEq)
    [] fn = "lessUint64" -> lessUint64(addr0, size, off, optEq)
    [] fn = "lessUintptr" -> lessUintptr(addr0, size, off, optEq)
    [] fn = "lessFloat32" -> lessFloat32(addr0, size, off, optEq)
    [] fn = "lessFloat64" -> lessFloat64(addr0, size, off, optEq)
    [] fn = "lessComplex64" -> lessComplex64(addr0, size, off, optEq)
    [] fn = "lessComplex128" -> lessComplex128(addr0, size, off, optEq)

RECURSIVE forAddr(_, _, _, _, _), arrayLoop(_, _, _, _, _), structLoop(_, _, _, _, _)

\* forAddr's loop over the elements of array type t, from index i down to 0.
arrayLoop(addr0, size, t, i, ret) ==
  IF i < 0 THEN Return(ret)
  ELSE LET et == t.sub[1]
           r == forAddr(addr0, size, Size(et) * i, et, ret)
       IN IF r.panic # "" THEN r ELSE arrayLoop(addr0, size, t, i - 1, r.less)

\* forAddr's loop over the fields of struct type t, from field n down to the
\* first (fields are numbered from 1).
structLoop(addr0, size, t, n, ret) ==
  IF n < 1 THEN Return(ret)
  ELSE IF t.names[n] = "_" THEN structLoop(addr0, size, t, n - 1, ret)
  ELSE LET r == forAddr(addr0, size, FieldOffset(t, n), t.sub[n], ret)
       IN IF r.panic # "" THEN r ELSE structLoop(addr0, size, t, n - 1, r.less)

forAddr(addr0, size, off, t, optEq) ==
  CASE t.kind = "Array" -> arrayLoop(addr0, size, t, t.len - 1, optEq)
    [] t.kind = "Struct" -> structLoop(addr0, size, t, Len(t.sub), optEq)
    [] OTHER ->
         IF makeLessOf(t.kind) = "" THEN Panic("UnsupportedType")
         ELSE Return(callMakeLess(makeLessOf(t.kind), addr0, size, off, optEq))

\* A mutant of Of: the length is looked at before the kind.
OfLenFirst(slice) ==
  IF slice.len = 0 THEN Return(NilLess)
  ELSE IF slice.kind # "Slice" THEN Panic("InvalidArgument")
  ELSE forAddr(slice.data, Size(slice.et), 0, slice.et, NilLess)

\* Of panics on an argument that is not a slice, returns nil for an empty
\* slice, and otherwise builds the chain for the element type at element 0.
Of(slice) ==
  IF slice.kind # "Slice" THEN Panic("InvalidArgument")
  ELSE IF slice.len = 0 THEN Return(NilLess)
  ELSE forAddr(slice.data, Size(slice.et), 0, slice.et, NilLess)

----------------------------------------------------------------------------
\* The element types and arguments the caller passes

TInt == Prim("Int")
TInt8 == Prim("Int8")
TInt32 == Prim("Int32")
TString == Prim("String")
TBool == Prim("Bool")
TFloat64 == Prim("Float64")
TComplex64 == Prim("Complex64")
TPtr == Prim("Ptr")
TInterface == Prim("Interface")
TSlice == Prim("Slice")

\* struct { S string; I int }
TStringInt == StructOf(<<"S", "I">>, <<TString, TInt>>)
\* [2]int
TArrInt == ArrayOf(2, TInt)
\* struct { A int32; _ int32; B int32 }
TBlank == StructOf(<<"A", "_", "B">>, <<TInt32, TInt32, TInt32>>)
\* struct { F float64; I int32 }
TFloatInt == StructOf(<<"F", "I">>, <<TFloat64, TInt32>>)
\* struct { A int32; B struct{ X int32 } }
TNestRec == StructOf(<<"A", "B">>, <<TInt32, StructOf(<<"X">>, <<TInt32>>)>>)
\* struct { A int32; B [1]int32 }
TNestArr == StructOf(<<"A", "B">>, <<TInt32, ArrayOf(1, TInt32)>>)
\* [2]struct{ X int32 }
TArrRec == ArrayOf(2, StructOf(<<"X">>, <<TInt32>>))
\* [2][1]int32
TArrArr == ArrayOf(2, ArrayOf(1, TInt32))
\* struct { A int8; _ int8; B [2]int8 }
TBlankArr == StructOf(<<"A", "_", "B">>, <<TInt8, TInt8, ArrayOf(2, TInt8)>>)
\* struct {}
TEmpty == StructOf(<<>>, <<>>)
\* [0]int32
TArr0 == ArrayOf(0, TInt32)
\* struct { _ int32 }
TOnlyBlank == StructOf(<<"_">>, <<TInt32>>)
\* struct { A int32; X interface{} }
TRecIface == StructOf(<<"A", "X">>, <<TInt32, TInterface>>)
\* [1][]int
TArrSlice == ArrayOf(1, TSlice)
\* [0]interface{}
TArr0Iface == ArrayOf(0, TInterface)
\* struct { _ interface{}; A int32 }
TBlankIface == StructOf(<<"_", "A">>, <<TInterface, TInt32>>)

Types ==
  {TInt, TString, TBool, TFloat64, TComplex64, TPtr, TStringInt, TArrInt,
   TBlank, TFloatInt, TNestRec, TNestArr, TArrRec, TArrArr, TBlankArr,
   TEmpty, TArr0, TOnlyBlank,
   TInterface, TSlice, TRecIface, TArrSlice, TArr0Iface, TBlankIface}

\* The kinds of value the caller passes to Of; "Invalid" is the nil interface
\* value, on which rv.Type() panics.
ArgKinds == {"Slice", "Array", "String", "Map", "Int", "Invalid"}

Indexes == 0 .. (arg.len - 1)

CellsOf == ElemCells(arg.et)

\* The address of cell c of element i of the argument.
CellAddr(i, c) == arg.data + Size(arg.et) * i + CellsOf[c].off

\* The addresses of the backing array of a slice of n elements of type t.
Addrs(data, t, n) ==
  {data + Size(t) * i + ElemCells(t)[c].off :
     i \in 0 .. (n - 1), c \in 1 .. Len(ElemCells(t))}

\* The kind of the cell at address a.
KindAt(data, t, n, a) ==
  LET c == CHOOSE c \in 1 .. Len(ElemCells(t)) :
             \E i \in 0 .. (n - 1) : data + Size(t) * i + ElemCells(t)[c].off = a
  IN ElemCells(t)[c].kind

NoHeap == [a \in {} |-> 0]

Init ==
  /\ \E k \in ArgKinds, t \in Types, n \in 0 .. MaxLen :
       /\ \/ k = "Slice" /\ n * Len(ElemCells(t)) <= MaxCells
          \/ k # "Slice" /\ t = TInt /\ n <= 1
       /\ arg = [kind |-> k, et |-> t, len |-> n, data |-> 8]
       /\ heap = IF k = "Slice"
                 THEN [a \in Addrs(8, t, n) |-> ZeroOf(KindAt(8, t, n, a))]
                 ELSE NoHeap
  /\ pc = "start"
  /\ err = ""
  /\ less = NilLess
  /\ got = "none"
  /\ zeroAtOf = FALSE
  /\ si = 0
  /\ sj = 0
  /\ heap0 = NoHeap

\* The caller calls Of on its argument.
DoOf ==
  /\ pc = "start"
  /\ LET r == Of(arg)
     IN /\ pc' = IF r.panic # "" THEN "panic" ELSE "built"
        /\ err' = r.panic
        /\ less' = r.less
  /\ zeroAtOf' = (/\ arg.kind = "Slice"
                  /\ \A i \in Indexes : \A c \in 1 .. Len(CellsOf) :
                       heap[CellAddr(i, c)] = ZeroOf(CellsOf[c].kind))
  /\ UNCHANGED <<arg, heap, got, si, sj, heap0>>

\* The caller stores v into cell c of element i (between sorts).
Store(i, c, v) ==
  /\ arg.kind = "Slice"
  /\ pc \in {"start", "built", "sorted"}
  /\ CellsOf[c].kind # "Word"
  /\ heap[CellAddr(i, c)] # v
  /\ heap' = [heap EXCEPT ![CellAddr(i, c)] = v]
  /\ pc' = IF pc = "sorted" THEN "built" ELSE pc
  /\ got' = "none"
  /\ heap0' = NoHeap
  /\ UNCHANGED <<arg, err, less, zeroAtOf, si, sj>>

\* The caller calls less(i, j); calling a nil func panics.
Call(i, j) ==
  /\ pc = "built"
  /\ IF less = NilLess
     THEN /\ pc' = "panic"
          /\ err' = "NilCall"
          /\ got' = "none"
     ELSE /\ got' = IF Invoke(less, heap, i, j) THEN "true" ELSE "false"
          /\ UNCHANGED <<pc, err>>
  /\ UNCHANGED <<arg, heap, less, zeroAtOf, si, sj, heap0>>

\* The backing array after the elements i and j are exchanged.
Swapped(h, i, j) ==
  LET sz == Size(arg.et)
      lo(k) == arg.data + sz * k
  IN [a \in DOMAIN h |->
        IF a >= lo(i) /\ a < lo(i) + sz THEN h[a - lo(i) + lo(j)]
        ELSE IF a >= lo(j) /\ a < lo(j) + sz THEN h[a - lo(j) + lo(i)]
        ELSE h[a]]

\* sort.Slice(slice, less) begins: insertion sort, i := 1.
SortBegin ==
  /\ pc = "built"
  /\ pc' = "sorting"
  /\ si' = 1
  /\ sj' = 1
  /\ heap0' = heap
  /\ got' = "none"
  /\ UNCHANGED <<arg, heap, err, less, zeroAtOf>>

\* The inner loop's test calls less(j, j-1), which is nil.
SortNilCall ==
  /\ pc = "sorting"
  /\ si < arg.len
  /\ sj > 0
  /\ less = NilLess
  /\ pc' = "panic"
  /\ err' = "NilCall"
  /\ UNCHANGED <<arg, heap, less, got, zeroAtOf, si, sj, heap0>>

\* less(j, j-1) holds: swap(j, j-1); j--.
SortSwap ==
  /\ pc = "sorting"
  /\ si < arg.len
  /\ sj > 0
  /\ less # NilLess
  /\ Invoke(less, heap, sj, sj - 1)
  /\ heap' = Swapped(heap, sj, sj - 1)
  /\ sj' = sj - 1
  /\ UNCHANGED <<arg, pc, err, less, got, zeroAtOf, si, heap0>>

\* The inner loop ends (j = 0 or less(j, j-1) is false): i++.
SortNext ==
  /\ pc = "sorting"
  /\ si < arg.len
  /\ \/ sj = 0
     \/ sj > 0 /\ less # NilLess /\ ~Invoke(less, heap, sj, sj - 1)
  /\ si' = si + 1
  /\ sj' = si + 1
  /\ UNCHANGED <<arg, heap, pc, err, less, got, zeroAtOf, heap0>>

\* The outer loop ends: sort.Slice returns.
SortDone ==
  /\ pc = "sorting"
  /\ si >= arg.len
  /\ pc' = "sorted"
  /\ si' = 0
  /\ sj' = 0
  /\ UNCHANGED <<arg, heap, err, less, got, zeroAtOf, heap0>>

Next ==
  \/ DoOf
  \/ \E i \in Indexes, c \in 1 .. Len(CellsOf) : \E v \in Vals(CellsOf[c].kind) :
       Store(i, c, v)
  \/ \E i \in Indexes, j \in Indexes : Call(i, j)
  \/ SortBegin
  \/ SortNilCall
  \/ SortSwap
  \/ SortNext
  \/ SortDone

Spec == Init /\ [][Next]_vars

----------------------------------------------------------------------------
\* What the claims speak of

\* Of has returned a less value to the caller.
Built == pc \in {"built", "sorting", "sorted"}

RECURSIVE RefLeaves(_, _), RefArray(_, _, _), RefStruct(_, _, _)
\* The depth-first flattening of type t lying at offset base: array elements
\* in index order, fields in declaration order, fields named "_" left out,
\* each leaf with its kind and its offset in the element.
RefLeaves(t, base) ==
  CASE t.kind = "Array" -> RefArray(t, base, 0)
    [] t.kind = "Struct" -> RefStruct(t, base, 1)
    [] t.kind = "Complex64" ->
         <<[kind |-> "Float32", off |-> base], [kind |-> "Float32", off |-> base + 4]>>
    [] t.kind = "Complex128" ->
         <<[kind |-> "Float64", off |-> base], [kind |-> "Float64", off |-> base + 8]>>
    [] OTHER -> <<[kind |-> t.kind, off |-> base]>>

RefArray(t, base, i) ==
  IF i >= t.len THEN <<>>
  ELSE RefLeaves(t.sub[1], base + i * Size(t.sub[1])) \o RefArray(t, base, i + 1)

RefStruct(t, base, n) ==
  IF n > Len(t.sub) THEN <<>>
  ELSE (IF t.names[n] = "_" THEN <<>> ELSE RefLeaves(t.sub[n], base + FieldOffset(t, n)))
       \o RefStruct(t, base, n + 1)

\* No leaf of the flattening is an interface value or a slice.
Supported(t) ==
  \A k \in 1 .. Len(RefLeaves(t, 0)) : RefLeaves(t, 0)[k].kind \notin {"Interface", "Slice"}

IsComposite(t) == t.kind \in {"Array", "Struct"}

\* A record of primitive fields, or an array of one or more primitive elements.
IsFlat(t) ==
  /\ IsComposite(t)
  /\ \A n \in 1 .. Len(t.sub) : ~IsComposite(t.sub[n])
  /\ Supported(t)
  /\ RefLeaves(t, 0) # <<>>

\* A record with a composite field at a non-zero offset, or an array of composites.
IsNested(t) ==
  \/ /\ t.kind = "Struct"
     /\ \E n \in 1 .. Len(t.sub) :
          IsComposite(t.sub[n]) /\ t.names[n] # "_" /\ FieldOffset(t, n) > 0
  \/ t.kind = "Array" /\ t.len > 0 /\ IsComposite(t.sub[1])

\* A record with a field named "_" between two other fields.
HasDiscardBetween(t) ==
  /\ t.kind = "Struct"
  /\ \E a, b, c \in 1 .. Len(t.sub) :
       a < b /\ b < c /\ t.names[a] # "_" /\ t.names[b] = "_" /\ t.names[c] # "_"

\* The value kept at offset off of element i.
ValAt(h, i, off) == h[arg.data + Size(arg.et) * i + off]

\* The declared ordering of one leaf: a tie, or strictly less.
LeafTie(k, va, vb) ==
  IF k \in {"Float32", "Float64"} THEN (va.nan /\ vb.nan) \/ FloatEq(va, vb)
  ELSE va = vb

LeafLess(k, va, vb) ==
  CASE k = "Bool" -> va = FALSE /\ vb = TRUE
    [] k = "String" -> StrLess(va, vb)
    [] k \in {"Float32", "Float64"} -> FloatLt(va, vb) \/ (va.nan /\ ~vb.nan)
    [] OTHER -> va < vb

RECURSIVE LexLess(_, _, _, _, _)
\* The strict lexicographic comparison of elements i and j over the leaves
\* ls[n], ls[n+1], ...
LexLess(ls, n, h, i, j) ==
  IF n > Len(ls) THEN FALSE
  ELSE LET va == ValAt(h, i, ls[n].off)
           vb == ValAt(h, j, ls[n].off)
       IN IF LeafTie(ls[n].kind, va, vb) THEN LexLess(ls, n + 1, h, i, j)
          ELSE LeafLess(ls[n].kind, va, vb)

RECURSIVE ChainOf(_)
\* The leaves a less value reads, in the order it reads them.
ChainOf(l) ==
  IF l = NilLess THEN <<>>
  ELSE <<[fn |-> l[1].fn, off |-> l[1].off]>> \o ChainOf(l[1].optEq)

\* The chain the flattening calls for.
ExpectedChain(t) ==
  [n \in 1 .. Len(RefLeaves(t, 0)) |->
     [fn |-> makeLessOf(RefLeaves(t, 0)[n].kind), off |-> RefLeaves(t, 0)[n].off]]

\* What a call l(i, j) does: it returns, or it panics (l is nil).
Outcome(l, h, i, j) ==
  IF l = NilLess THEN "panic" ELSE IF Invoke(l, h, i, j) THEN "true" ELSE "false"

P(i, j) == Invoke(less, heap, i, j)

\* The backing array with every cell of a field named "_" set to zero.
Scrubbed(h) ==
  [a \in DOMAIN h |->
     IF \E i \in Indexes, c \in 1 .. Len(CellsOf) : CellAddr(i, c) = a /\ CellsOf[c].blank
     THEN ZeroOf(KindAt(arg.data, arg.et, arg.len, a)) ELSE h[a]]

\* Element i of backing array h, as the tuple of its cells.
Elem(h, i) == [c \in 1 .. Len(CellsOf) |-> h[CellAddr(i, c)]]

Count(h, e) == Cardinality({k \in Indexes : Elem(h, k) = e})

IsPermutation(h, g) ==
  \A i \in Indexes : Count(h, Elem(h, i)) = Count(g, Elem(h, i))

\* sort.Slice panicked in a call of less.
SortFailed == pc = "panic" /\ err = "NilCall" /\ si > 0

\* C1: for a non-empty slice of a supported element type, sorting it in place
\* by Of's less function completes, leaves no adjacent pair k, k+1 with
\* less(k+1, k), and leaves a permutation of the elements it began with.
C1_SortYieldsSorted ==
  (arg.kind = "Slice" /\ arg.len > 0 /\ Supported(arg.et)) =>
    /\ ~SortFailed
    /\ pc = "sorted" =>
         /\ \A k \in Indexes : k + 1 \in Indexes => Outcome(less, heap, k + 1, k) = "false"
         /\ IsPermutation(heap, heap0)

\* C2: for a record of primitive fields or an array of primitive elements,
\* less(i, j) is the strict lexicographic comparison of the two elements over
\* the fields in declaration order: the first field on which they differ
\* decides, and two elements equal on every field are not less.
C2_FlatIsLexicographic ==
  (pc = "built" /\ arg.len > 0 /\ IsFlat(arg.et)) =>
    \A i, j \in Indexes :
      Outcome(less, heap, i, j) =
        (IF LexLess(RefLeaves(arg.et, 0), 1, heap, i, j) THEN "true" ELSE "false")

\* C3: for an element type with nested composites, the chain Of builds is
\* exactly the depth-first flattening of the type, each leaf read at its true
\* offset in the element.
C3_ChainIsFlattening ==
  (pc = "built" /\ arg.len > 0 /\ IsNested(arg.et)) =>
    ChainOf(less) = ExpectedChain(arg.et)

\* C4: at a float leaf two not-a-number values tie and the continuation
\* decides: for struct { F float64; I int32 } with both F not-a-number,
\* less(i, j) holds when I[i] < I[j]; for a complex number with both real
\* parts not-a-number, less(i, j) holds when the imaginary parts are ordered.
C4_NaNTieDefers ==
  (pc = "built" /\ arg.len > 0 /\ arg.et \in {TFloatInt, TComplex64}) =>
    \A i, j \in Indexes :
      LET ls == RefLeaves(arg.et, 0)
          ai == ValAt(heap, i, ls[1].off)
          aj == ValAt(heap, j, ls[1].off)
          bi == ValAt(heap, i, ls[2].off)
          bj == ValAt(heap, j, ls[2].off)
      IN (ai.nan /\ aj.nan /\ LeafLess(ls[2].kind, bi, bj)) => Outcome(less, heap, i, j) = "true"

\* C5: for a record with a field named "_" between two other fields,
\* less(i, j) does not depend on what the "_" field holds: it is the same on
\* the slice with every "_" field set to zero.
C5_DiscardIgnored ==
  (pc = "built" /\ arg.len > 0 /\ HasDiscardBetween(arg.et) /\ Supported(arg.et)) =>
    \A i, j \in Indexes :
      Outcome(less, heap, i, j) = Outcome(less, Scrubbed(heap), i, j)

\* C6: when Of returns for a non-empty slice, what it returns is a function
\* that can be called on every pair of indices: it is not nil, and no call
\* of it panics.
C6_NoDeferredFailure ==
  /\ err # "NilCall"
  /\ (Built /\ arg.len > 0) => less # NilLess

\* C7 as stated: Of on a slice whose element type has an interface or slice
\* leaf panics with UnsupportedType, whatever the slice's length.
C7_RejectsAnyLength ==
  (arg.kind = "Slice" /\ ~Supported(arg.et) /\ pc # "start") =>
    (pc = "panic" /\ err = "UnsupportedType" /\ less = NilLess)

\* C7 amended: Of on a non-empty slice whose element type has an interface or
\* slice leaf panics with UnsupportedType and returns no less function,
\* whatever the slice holds.
C7_RejectsNonEmpty ==
  (arg.kind = "Slice" /\ arg.len > 0 /\ ~Supported(arg.et) /\ pc # "start") =>
    (pc = "panic" /\ err = "UnsupportedType" /\ less = NilLess)

\* Of has panicked on a two-element slice of struct { A int32; X interface{} }
\* whose first element the caller had written.
C7_Witness ==
  /\ arg.et = TRecIface
  /\ arg.len = 2
  /\ heap[CellAddr(0, 1)] = 1
  /\ pc = "panic"
  /\ err = "UnsupportedType"

\* C8: the less function reads the slice when it is called and never writes
\* it.  A call of less leaves the backing array as it was; and across every
\* step taken once Of has returned (a store, a swap of the sort, a call), the
\* answer of less is fixed by what the two elements hold at the time of the
\* call: if elements k and l hold after the step what elements i and j held
\* before it, less(k, l) after the step is less(i, j) before it.  So less
\* follows the contents through swaps, is unmoved by stores into other
\* elements, and answers as at the start once the contents are stored back.
C8_ReadsAtCallTime ==
  [][ /\ (\E i, j \in Indexes : Call(i, j)) => heap' = heap
      /\ (pc \in {"built", "sorting", "sorted"} /\
          pc' \in {"built", "sorting", "sorted"}) =>
           LET size == Size(arg.et)
               cells == CellsOf
               offs == {cells[c].off : c \in 1 .. Len(cells)}
               \* element k holds after the step what element i held before it
               Moved(i, k) == \A o \in offs :
                                heap'[arg.data + size * k + o] =
                                  heap[arg.data + size * i + o]
           IN \A i, k \in Indexes : Moved(i, k) =>
                \A j, l \in Indexes : Moved(j, l) =>
                  Outcome(less', heap', k, l) = Outcome(less, heap, i, j)
    ]_vars

\* Every element was the zero value when Of ran, so no call of less returned
\* true on what the slice held then; the caller has since stored into the
\* slice and called less, which returned true.
C8_Witness ==
  /\ pc = "built"
  /\ zeroAtOf
  /\ got = "true"
  /\ arg.et = TStringInt

\* C9: Of on an argument that is not a slice panics with InvalidArgument and
\* returns no less function, whatever the argument's length.
C9_NotASliceRejected ==
  (arg.kind # "Slice" /\ pc # "start") =>
    (pc = "panic" /\ err = "InvalidArgument" /\ less = NilLess)

\* Of has panicked on an empty array.
C9_Witness ==
  /\ arg.kind = "Array"
  /\ arg.len = 0
  /\ pc = "panic"
  /\ err = "InvalidArgument"

\* less is a strict weak ordering of the indices of the slice as it is now.
StrictWeakOrder ==
  /\ \A i \in Indexes : ~P(i, i)
  /\ \A i, j \in Indexes : ~(P(i, j) /\ P(j, i))
  /\ \A i, j, k \in Indexes : (P(i, j) /\ P(j, k)) => P(i, k)
  /\ \A i, j, k \in Indexes :
       (~P(i, j) /\ ~P(j, i) /\ ~P(j, k) /\ ~P(k, j)) => (~P(i, k) /\ ~P(k, i))

\* C10: for every supported element type and every contents of a non-empty
\* slice, the less function Of returns is a strict weak ordering of the
\* indices.
C10_StrictWeakOrder ==
  (pc = "built" /\ arg.len > 0 /\ Supported(arg.et)) =>
    (less # NilLess /\ StrictWeakOrder)

====
